---- MODULE Spec2Model ----
(***************************************************************************)
(* Flaky-test analyser for Prow jobs: build discovery (Job.ListBuilds),    *)
(* flake accumulation (Job.ParseTests), the gob cache (Job.Serialize /     *)
(* Job.Deserialize), the report (Job.ShowIntermittentFailures) and main.   *)
(*                                                                         *)
(* The remote artifact store (job listing page, finished.json per build,   *)
(* junit report per build) is fixed when a behaviour starts and is read by *)
(* the fetch steps.  Build ids are strings of decimal digits, modelled as  *)
(* sequences of digits, so that sort.Strings is a byte-wise comparison.    *)
(* float32 values (Flakes, TotalBuilds) are multiples of 0.5 far below     *)
(* 2^24 and therefore exact; Flakes is kept in units of 0.5.               *)
(***************************************************************************)
EXTENDS Integers, Sequences, FiniteSets, TLC

\* ------------------------------------------------------------- bounds
\* Build ids of the catalogue environments are the decimal strings 9..MaxId.
MaxId == 11
\* Requested number of builds (main's numBuilds) ranges over 0..MaxWindow.
MaxWindow == 3
\* Completion timestamps range over 1..MaxTimestamp.
MaxTimestamp == 2
\* Number of test cases in the reports of an analysis environment.
MaxCases == 2
\* Number of builds of the analysis environments.
AnalysisBuilds == 2
\* Number of builds of the long-history environments.
DeepBuilds == 5
\* Number of rows of the dashboard (main.go lists two).
MaxEntries == 3

\* ------------------------------------------------------------- strings
RECURSIVE Digits(_)
\* The decimal string of n, as the listing page shows a build directory.
Digits(n) == IF n < 10 THEN <<n>> ELSE Append(Digits(n \div 10), n % 10)

\* Variant: ids compared as numbers (a shorter digit string is smaller).
StringLess_Numeric(a, b) ==
    \/ Len(a) < Len(b)
    \/ /\ Len(a) = Len(b)
       /\ \E k \in 1..Len(a) : a[k] < b[k] /\ \A i \in 1..(k - 1) : a[i] = b[i]

\* Go's string comparison a < b: byte-wise, a proper prefix is smaller.
StringLess(a, b) ==
    \E k \in 1..(Len(a) + 1) :
        /\ \A i \in 1..(k - 1) : i <= Len(b) /\ a[i] = b[i]
        /\ \/ k = Len(a) + 1 /\ k <= Len(b)
           \/ k <= Len(a) /\ k <= Len(b) /\ a[k] < b[k]

RECURSIVE InsertSorted(_, _)
InsertSorted(x, s) ==
    IF s = <<>> THEN <<x>>
    ELSE IF StringLess(s[1], x) THEN <<s[1]>> \o InsertSorted(x, Tail(s))
    ELSE <<x>> \o s

RECURSIVE SortStrings(_)
\* sort.Strings: the ids in increasing string order.
SortStrings(s) ==
    IF s = <<>> THEN <<>> ELSE InsertSorted(s[Len(s)], SortStrings(SubSeq(s, 1, Len(s) - 1)))

\* ------------------------------------------------------------- test cases
IgnoredName == "[sig-arch] Monitor cluster while tests execute"
ignoreTestCases == {IgnoredName}
TestNames == {"T1", "T2", IgnoredName}

\* A <testcase>: name, the skipped message, the failure text.
TestCase(name, skipped, failure) == [Name |-> name, Skipped |-> skipped, Failure |-> failure]

IsSkipped(tc) == tc.Skipped # ""
IsFailure(tc) == tc.Failure # ""
\* Variant: a skipped test case does not count as passed.
IsPassed_SkippedNotPassed(tc) == ~IsFailure(tc) /\ ~IsSkipped(tc)
IsPassed(tc) == ~IsFailure(tc)
\* Variant: the ignore set is never consulted.
Ignore_Never(tc) == FALSE
Ignore(tc) == tc.Name \in ignoreTestCases

\* ------------------------------------------------------------- remote store
\* What the GET of the job's listing page gives: a transport error, or the
\* build ids the regexp extracts from the page, in page order.
ListingError == [kind |-> "error", ids |-> <<>>]
ListingOf(ids) == [kind |-> "ok", ids |-> ids]

\* What the GET of a build's finished.json gives.
FinishedOk(t) == [kind |-> "ok", Timestamp |-> t]
FinishedNotFetched == [kind |-> "notfetched", Timestamp |-> 0]
FinishedMalformed == [kind |-> "malformed", Timestamp |-> 0]

\* What scraping and fetching a build's junit report gives.
JunitOk(cases) == [kind |-> "ok", cases |-> cases]
JunitFail(kind) == [kind |-> kind, cases |-> <<>>]
JunitFailKinds == {"unreachable", "nomatch", "notfetched", "malformed"}

\* ------------------------------------------------------------- job data
\* Build: the id and the decoded completion record (only Timestamp is read).
NewBuild(id) == [id |-> id, finished |-> [Timestamp |-> 0]]

EmptyData == [k \in {} |-> [PreviousState |-> TRUE, Flakes |-> 0]]
\* NewJob: no builds, a zero JobHistory with an empty (non-nil) Data map.
NewHistory == [From |-> 0, To |-> 0, TotalBuilds |-> 0, Data |-> EmptyData]

\* Variant: a malformed record is taken as decoded (zero Timestamp).
fetchTestStepResult_AcceptsMalformed(b, remote) ==
    LET body == remote[b.id]
    IN  IF body.kind \in {"ok", "malformed"}
        THEN [err |-> FALSE, build |-> [b EXCEPT !.finished = [Timestamp |-> body.Timestamp]]]
        ELSE [err |-> TRUE, build |-> b]

\* Build.fetchTestStepResult: the transport error is overwritten by the result
\* of json.Unmarshal, which fails on the nil body and on a malformed record.
fetchTestStepResult(b, remote) ==
    LET body == remote[b.id]
    IN  IF body.kind = "ok"
        THEN [err |-> FALSE, build |-> [b EXCEPT !.finished = [Timestamp |-> body.Timestamp]]]
        ELSE [err |-> TRUE, build |-> b]

\* Variant: the report's fetch error is dropped and the nil body taken for an
\* empty suite.
FetchTestsXml_NilBodyDecodes(b, remote) ==
    LET r == remote[b.id]
    IN  IF r.kind \in {"unreachable", "nomatch", "malformed"}
        THEN [err |-> TRUE, TestCases |-> <<>>]
        ELSE [err |-> FALSE, TestCases |-> r.cases]

\* Build.FetchTestsXml: getTestsXmlFilename fails when the listing cannot be
\* read or names no junit file; the fetch error of the report is dropped and
\* xml.Unmarshal fails on the nil body and on a malformed report.
FetchTestsXml(b, remote) ==
    LET r == remote[b.id]
    IN  IF r.kind \in {"unreachable", "nomatch"} THEN [err |-> TRUE, TestCases |-> <<>>]
        ELSE IF r.kind \in {"notfetched", "malformed"} THEN [err |-> TRUE, TestCases |-> <<>>]
        ELSE [err |-> FALSE, TestCases |-> r.cases]

\* Variants of the inner loop: an unseen test seeded as failing; PreviousState
\* left as it was; a whole flake added per transition.
ObserveTestCase_SeedFalse(h, tc) ==
    IF tc.Name \in ignoreTestCases THEN h
    ELSE LET thc == IF tc.Name \in DOMAIN h.Data THEN h.Data[tc.Name]
                    ELSE [PreviousState |-> FALSE, Flakes |-> 0]
             new == [PreviousState |-> tc.Failure = "",
                     Flakes |-> IF (tc.Failure = "") # thc.PreviousState
                                THEN thc.Flakes + 1 ELSE thc.Flakes]
         IN  [h EXCEPT !.Data = [k \in DOMAIN h.Data \cup {tc.Name} |->
                                    IF k = tc.Name THEN new ELSE h.Data[k]]]

ObserveTestCase_KeepPrevious(h, tc) ==
    IF tc.Name \in ignoreTestCases THEN h
    ELSE LET thc == IF tc.Name \in DOMAIN h.Data THEN h.Data[tc.Name]
                    ELSE [PreviousState |-> TRUE, Flakes |-> 0]
             new == [PreviousState |-> thc.PreviousState,
                     Flakes |-> IF (tc.Failure = "") # thc.PreviousState
                                THEN thc.Flakes + 1 ELSE thc.Flakes]
         IN  [h EXCEPT !.Data = [k \in DOMAIN h.Data \cup {tc.Name} |->
                                    IF k = tc.Name THEN new ELSE h.Data[k]]]

ObserveTestCase_WholeFlake(h, tc) ==
    IF tc.Name \in ignoreTestCases THEN h
    ELSE LET thc == IF tc.Name \in DOMAIN h.Data THEN h.Data[tc.Name]
                    ELSE [PreviousState |-> TRUE, Flakes |-> 0]
             new == [PreviousState |-> tc.Failure = "",
                     Flakes |-> IF (tc.Failure = "") # thc.PreviousState
                                THEN thc.Flakes + 2 ELSE thc.Flakes]
         IN  [h EXCEPT !.Data = [k \in DOMAIN h.Data \cup {tc.Name} |->
                                    IF k = tc.Name THEN new ELSE h.Data[k]]]

\* Variant of the inner loop: only a change from passed to failed is counted.
ObserveTestCase_OnlyNewFailures(h, tc) ==
    IF tc.Name \in ignoreTestCases THEN h
    ELSE LET thc == IF tc.Name \in DOMAIN h.Data THEN h.Data[tc.Name]
                    ELSE [PreviousState |-> TRUE, Flakes |-> 0]
             new == [PreviousState |-> tc.Failure = "",
                     Flakes |-> IF thc.PreviousState /\ tc.Failure # ""
                                THEN thc.Flakes + 1 ELSE thc.Flakes]
         IN  [h EXCEPT !.Data = [k \in DOMAIN h.Data \cup {tc.Name} |->
                                    IF k = tc.Name THEN new ELSE h.Data[k]]]

\* Variant of the inner loop: observing a test marks every other test as passed.
ObserveTestCase_TouchesOthers(h, tc) ==
    IF tc.Name \in ignoreTestCases THEN h
    ELSE LET thc == IF tc.Name \in DOMAIN h.Data THEN h.Data[tc.Name]
                    ELSE [PreviousState |-> TRUE, Flakes |-> 0]
             new == [PreviousState |-> tc.Failure = "",
                     Flakes |-> IF (tc.Failure = "") # thc.PreviousState
                                THEN thc.Flakes + 1 ELSE thc.Flakes]
         IN  [h EXCEPT !.Data = [k \in DOMAIN h.Data \cup {tc.Name} |->
                                    IF k = tc.Name THEN new
                                    ELSE [h.Data[k] EXCEPT !.PreviousState = TRUE]]]

\* One iteration of the inner loop of ParseTests (Flakes in units of 0.5).
ObserveTestCase(h, tc) ==
    IF Ignore(tc) THEN h
    ELSE LET ok  == tc.Name \in DOMAIN h.Data
             thc == IF ok THEN h.Data[tc.Name] ELSE [PreviousState |-> TRUE, Flakes |-> 0]
             new == [PreviousState |-> IsPassed(tc),
                     Flakes |-> IF IsPassed(tc) # thc.PreviousState
                                THEN thc.Flakes + 1 ELSE thc.Flakes]
         IN  [h EXCEPT !.Data = [k \in DOMAIN h.Data \cup {tc.Name} |->
                                    IF k = tc.Name THEN new ELSE h.Data[k]]]

RECURSIVE FoldCases(_, _)
\* Lines 276-295 over a whole suite.
FoldCases(h, cases) ==
    IF cases = <<>> THEN h ELSE FoldCases(ObserveTestCase(h, Head(cases)), Tail(cases))

RECURSIVE FoldBuilds(_, _, _)
\* Lines 268-298 over a list of builds.
FoldBuilds(h, bs, remote) ==
    IF bs = <<>> THEN h
    ELSE LET r == FetchTestsXml(Head(bs), remote)
         IN  FoldBuilds(IF r.err THEN h
                        ELSE [FoldCases(h, r.TestCases) EXCEPT !.TotalBuilds = @ + 1],
                        Tail(bs), remote)

\* Job.ParseTests as a function of the (non-empty) build list, the remote
\* reports and the history it starts from.
ParseTestsResult(bs, remote, h) ==
    [FoldBuilds(h, bs, remote) EXCEPT !.To = bs[1].finished.Timestamp,
                                      !.From = bs[Len(bs)].finished.Timestamp]

\* ------------------------------------------------------------- gob cache
\* Length in bytes of a test name; "T2" stands for the long names of real
\* suites, whose encoding alone exceeds the writer's buffer.
NameLen(name) == IF name = "T1" THEN 2 ELSE IF name = "T2" THEN 5000 ELSE 46

RECURSIVE SumNameLen(_)
SumNameLen(names) ==
    IF names = {} THEN 0
    ELSE LET x == CHOOSE y \in names : TRUE IN NameLen(x) + 8 + SumNameLen(names \ {x})

\* gob sends a struct as its non-zero fields; a non-nil map is always sent and
\* each element is again a struct without its zero fields.
GobEncodeTestHistory(th) ==
    [present |-> {f \in {"PreviousState", "Flakes"} :
                     \/ f = "PreviousState" /\ th.PreviousState
                     \/ f = "Flakes" /\ th.Flakes # 0},
     PreviousState |-> th.PreviousState, Flakes |-> th.Flakes]

GobEncode(h) ==
    [size    |-> 160 + SumNameLen(DOMAIN h.Data),
     present |-> {f \in {"From", "To", "TotalBuilds"} :
                     \/ f = "From" /\ h.From # 0
                     \/ f = "To" /\ h.To # 0
                     \/ f = "TotalBuilds" /\ h.TotalBuilds # 0} \cup {"Data"},
     From |-> h.From, To |-> h.To, TotalBuilds |-> h.TotalBuilds,
     Data |-> [k \in DOMAIN h.Data |-> GobEncodeTestHistory(h.Data[k])]]

GobDecodeTestHistory(e) ==
    [PreviousState |-> IF "PreviousState" \in e.present THEN e.PreviousState ELSE FALSE,
     Flakes        |-> IF "Flakes" \in e.present THEN e.Flakes ELSE 0]

\* Decoding sets the fields the stream carries and adds the stream's map
\* elements to the target's map; everything else of the target is kept.
GobDecode(blob, into) ==
    [From        |-> IF "From" \in blob.present THEN blob.From ELSE into.From,
     To          |-> IF "To" \in blob.present THEN blob.To ELSE into.To,
     TotalBuilds |-> IF "TotalBuilds" \in blob.present THEN blob.TotalBuilds ELSE into.TotalBuilds,
     Data        |-> IF "Data" \in blob.present
                     THEN [k \in DOMAIN into.Data \cup DOMAIN blob.Data |->
                              IF k \in DOMAIN blob.Data
                              THEN GobDecodeTestHistory(blob.Data[k]) ELSE into.Data[k]]
                     ELSE into.Data]

\* bufio.NewWriter's buffer size.
defaultBufSize == 4096
EmptyBlob == GobEncode(NewHistory)
NoFile == [exists |-> FALSE, size |-> 0, blob |-> EmptyBlob]

\* bufio.Writer.Write on a fresh writer: a slice larger than the buffer goes
\* straight to the file, anything else is copied into the buffer.  Serialize
\* never flushes, so buffered bytes never reach the file.
BufioWrite(p) ==
    IF p.size > defaultBufSize
    THEN [exists |-> TRUE, size |-> p.size, blob |-> p]
    ELSE [exists |-> TRUE, size |-> 0, blob |-> EmptyBlob]

\* ------------------------------------------------------------- environments
Range(s) == {s[i] : i \in 1..Len(s)}

RECURSIVE Ascending(_)
\* The numbers of S in increasing order.
Ascending(S) ==
    IF S = {} THEN <<>>
    ELSE LET m == CHOOSE x \in S : \A y \in S : x <= y IN <<m>> \o Ascending(S \ {m})

Reverse(s) == [i \in 1..Len(s) |-> s[Len(s) + 1 - i]]
IdsOf(nums) == [i \in 1..Len(nums) |-> Digits(nums[i])]

\* Suites of at most n test cases drawn from pool.
SuitesUpTo(pool, n) == UNION {[1..k -> pool] : k \in 0..n}

\* Catalogue environments: any set of the ids 9..MaxId on the page, oldest or
\* newest first, any completion record per id, one report for every build.
CatalogListings ==
    {ListingError} \cup
    UNION {{ListingOf(IdsOf(Ascending(S))), ListingOf(IdsOf(Reverse(Ascending(S))))} :
              S \in SUBSET (9..MaxId)}
FinishedResults ==
    {FinishedNotFetched, FinishedMalformed} \cup {FinishedOk(t) : t \in 1..MaxTimestamp}
CatalogReports == {JunitFail("nomatch"), JunitOk(<<TestCase("T1", "", "boom")>>)}

\* Analysis environments: AnalysisBuilds completed builds; the reports hold
\* at most MaxCases test cases in all, split over the builds in every way, and
\* a build without test cases may also have no usable report.
AnalysisIds == IdsOf(Ascending(9..(8 + AnalysisBuilds)))
AnalysisCases ==
    {TestCase(nm, "", f) : nm \in TestNames, f \in {"", "boom"}} \cup
    {TestCase("T1", "skipped", "")}

RECURSIVE SumTo(_, _)
SumTo(f, i) == IF i = 0 THEN 0 ELSE f[i] + SumTo(f, i - 1)

AnalysisJunit(flat, lens, kinds) ==
    [id \in Range(AnalysisIds) |->
        LET i == CHOOSE j \in 1..AnalysisBuilds : AnalysisIds[j] = id
        IN  IF kinds[i] # "ok" THEN JunitFail(kinds[i])
            ELSE JunitOk(SubSeq(flat, SumTo(lens, i - 1) + 1, SumTo(lens, i)))]

\* Long-history environments: DeepBuilds completed builds; a report holds one
\* test case, or a test case that failed and was retried (the same name
\* twice), or is missing.
DeepIds == IdsOf(Ascending(9..(8 + DeepBuilds)))
DeepReports ==
    {JunitFail("nomatch"), JunitOk(<<TestCase("T1", "", "")>>),
     JunitOk(<<TestCase("T1", "", "boom")>>),
     JunitOk(<<TestCase("T1", "", ""), TestCase("T1", "", "boom")>>),
     JunitOk(<<TestCase("T2", "", "boom")>>)}

\* ------------------------------------------------------------- state
VARIABLES
    listing,       \* remote: the job's listing page
    finishedJson,  \* remote: build id -> finished.json
    junitXml,      \* remote: build id -> junit report
    windowSize,    \* main: numBuilds
    cacheFile,     \* the file <job name>.raw
    pc,            \* position of main
    builds,        \* Job.builds
    history,       \* Job.history
    buildIds,      \* ListBuilds: buildIds
    numBuilds,     \* ListBuilds: numBuilds (the parameter, reassigned at line 242)
    n,             \* ListBuilds: n
    bi,            \* ParseTests: position of the range over j.builds (1-based)
    suite,         \* ParseTests: suite.TestCases of the current build
    ti,            \* ParseTests: position of the range over suite.TestCases
    found,         \* main: result of job.Deserialize()
    decodeErr,     \* Deserialize: err of decoder.Decode
    saved,         \* Serialize: the history whose encoding was handed to w.Write
    report,        \* ShowIntermittentFailures: the printed entries
    Entries,       \* dashboard: State.Entries
    Cursor,        \* dashboard: State.Cursor
    LinkCursor,    \* dashboard: State.LinkCursor
    rendered,      \* dashboard: the row and the link the last Redraw highlighted
    opened,        \* dashboard: the last link handed to OpenLinkInBrowser
    uiPc           \* dashboard: position of its main

remoteVars == <<listing, finishedJson, junitXml, windowSize>>
listVars == <<buildIds, numBuilds, n>>
parseVars == <<bi, suite, ti>>
cacheVars == <<cacheFile, found, decodeErr, saved>>
analyserVars == <<listing, finishedJson, junitXml, windowSize, cacheFile, pc, builds,
          history, buildIds, numBuilds, n, bi, suite, ti, found, decodeErr, saved, report>>
dashVars == <<Entries, Cursor, LinkCursor, rendered, opened, uiPc>>
vars == <<analyserVars, dashVars>>

InitCatalog ==
    /\ listing \in CatalogListings
    /\ finishedJson \in [Range(listing.ids) -> FinishedResults]
    /\ \E r \in CatalogReports : junitXml = [id \in Range(listing.ids) |-> r]
    /\ windowSize \in 0..MaxWindow

InitAnalysis ==
    /\ listing = ListingOf(AnalysisIds)
    /\ finishedJson = [id \in Range(AnalysisIds) |-> FinishedOk(1)]
    /\ \E flat \in SuitesUpTo(AnalysisCases, MaxCases) :
       \E lens \in {l \in [1..AnalysisBuilds -> 0..MaxCases] :
                       SumTo(l, AnalysisBuilds) = Len(flat)} :
       \E kinds \in {k \in [1..AnalysisBuilds -> JunitFailKinds \cup {"ok"}] :
                       \A i \in 1..AnalysisBuilds : lens[i] > 0 => k[i] = "ok"} :
          junitXml = AnalysisJunit(flat, lens, kinds)
    /\ windowSize = AnalysisBuilds

InitDeep ==
    /\ listing = ListingOf(DeepIds)
    /\ finishedJson = [id \in Range(DeepIds) |-> FinishedOk(1)]
    /\ junitXml \in [Range(DeepIds) -> DeepReports]
    /\ windowSize = DeepBuilds

\* ------------------------------------------------------------- dashboard data
\* The dashboard (main.go) is a program of its own: while the analyser runs it
\* is off, and while it runs the analyser is off.
\* Row i of the table: a name and three links, all different from each other.
Entry(i) ==
    [Name |-> i, Dashboard |-> <<i, "dashboard">>, Artifacts |-> <<i, "artifacts">>,
     Sippy |-> <<i, "sippy">>]
\* The empty string GetSelectedLink returns when no case matches.
NoLink == <<0, "">>
EntryLists == {[i \in 1..k |-> Entry(i)] : k \in 1..MaxEntries}

\* GetSelectedLink; the caller has checked that Cursor - 1 is an index of Entries.
GetSelectedLink(entries, cursor, linkCursor) ==
    LET entry == entries[cursor]
    IN  CASE linkCursor = 0 -> entry.Dashboard
          [] linkCursor = 1 -> entry.Artifacts
          [] linkCursor = 2 -> entry.Sippy
          [] OTHER -> NoLink

\* What Redraw highlights: row state.Cursor of the table (row 0 is the header)
\* and, in the row of entry Cursor, link LinkCursor.
Redraw(cursor, linkCursor) == [row |-> cursor, link |-> linkCursor]

DashboardOff ==
    /\ Entries = <<>>
    /\ Cursor = 0
    /\ LinkCursor = 0
    /\ rendered = Redraw(0, 0)
    /\ opened = NoLink
    /\ uiPc = "off"

\* main, first invocation: NewJob, no cache file yet.
Init ==
    /\ InitCatalog \/ InitAnalysis \/ InitDeep
    /\ cacheFile = NoFile
    /\ pc = "Deserialize"
    /\ builds = <<>>
    /\ history = NewHistory
    /\ buildIds = <<>>
    /\ numBuilds = 0
    /\ n = 0
    /\ bi = 0
    /\ suite = <<>>
    /\ ti = 0
    /\ found = FALSE
    /\ decodeErr = FALSE
    /\ saved = NewHistory
    /\ report = <<>>
    /\ DashboardOff

\* ------------------------------------------------------------- cache
\* Variant: main runs the pipeline whatever Deserialize returns.
Deserialize_ResultUnused ==
    /\ pc = "Deserialize"
    /\ IF ~cacheFile.exists
       THEN found' = FALSE /\ UNCHANGED <<history, decodeErr>>
       ELSE /\ IF cacheFile.size = 0
               THEN decodeErr' = TRUE /\ UNCHANGED history
               ELSE decodeErr' = FALSE /\ history' = GobDecode(cacheFile.blob, history)
            /\ found' = TRUE
    /\ pc' = "ListBuilds"
    /\ UNCHANGED <<remoteVars, cacheFile, saved, builds, listVars, parseVars, report>>
    /\ UNCHANGED dashVars

\* Job.Deserialize and main's branch on its result.
Deserialize ==
    /\ pc = "Deserialize"
    /\ IF ~cacheFile.exists
       THEN /\ found' = FALSE
            /\ pc' = "ListBuilds"
            /\ UNCHANGED <<history, decodeErr>>
       ELSE /\ IF cacheFile.size = 0
               THEN decodeErr' = TRUE /\ UNCHANGED history
               ELSE decodeErr' = FALSE /\ history' = GobDecode(cacheFile.blob, history)
            /\ found' = TRUE
            /\ pc' = "Show"
    /\ UNCHANGED <<remoteVars, cacheFile, saved, builds, listVars, parseVars, report>>
    /\ UNCHANGED dashVars

\* Job.Serialize: os.Create may fail (logged); otherwise the file is truncated
\* and the encoded history is written through an unflushed bufio.Writer.
Serialize ==
    /\ pc = "Serialize"
    /\ \E createOk \in BOOLEAN :
          IF createOk
          THEN cacheFile' = BufioWrite(GobEncode(history)) /\ saved' = history
          ELSE UNCHANGED <<cacheFile, saved>>
    /\ pc' = "Show"
    /\ UNCHANGED <<remoteVars, found, decodeErr, builds, history, listVars, parseVars, report>>
    /\ UNCHANGED dashVars

\* ------------------------------------------------------------- ListBuilds
\* Lines 216-244: fetch the page, extract and sort the ids, clamp numBuilds.
\* main drops the error returned when the page cannot be fetched.
ListBuildsFetch ==
    /\ pc = "ListBuilds"
    /\ IF listing.kind = "error"
       THEN /\ pc' = "ParseTests"
            /\ UNCHANGED <<builds, listVars>>
       ELSE /\ buildIds' = SortStrings(listing.ids)
            /\ builds' = <<>>
            /\ numBuilds' = IF Len(listing.ids) < windowSize THEN Len(listing.ids) ELSE windowSize
            /\ n' = Len(listing.ids) - 1
            /\ pc' = "ListBuildsLoop"
    /\ UNCHANGED <<remoteVars, cacheVars, history, parseVars, report>>
    /\ UNCHANGED dashVars

\* Lines 244-255: one iteration of the candidate loop; n is the 0-based index,
\* and buildIds[n] with n = -1 is a run-time panic.
ListBuildsIter ==
    /\ pc = "ListBuildsLoop"
    /\ IF n < 0
       THEN /\ pc' = "PanicListBuilds"
            /\ UNCHANGED <<builds, n>>
       ELSE LET r == fetchTestStepResult(NewBuild(buildIds[n + 1]), finishedJson)
                bs == IF r.err THEN builds ELSE Append(builds, r.build)
            IN  /\ builds' = bs
                /\ IF Len(bs) >= numBuilds
                   THEN pc' = "ParseTests" /\ UNCHANGED n
                   ELSE pc' = "ListBuildsLoop" /\ n' = n - 1
    /\ UNCHANGED <<remoteVars, cacheVars, history, buildIds, numBuilds, parseVars, report>>
    /\ UNCHANGED dashVars

\* ------------------------------------------------------------- ParseTests
\* Line 265: the log line reads j.builds[0] and j.builds[len-1].
ParseTestsBegin ==
    /\ pc = "ParseTests"
    /\ IF builds = <<>>
       THEN pc' = "PanicParseTests" /\ UNCHANGED bi
       ELSE pc' = "ParseTestsLoop" /\ bi' = 1
    /\ UNCHANGED <<remoteVars, cacheVars, builds, history, listVars, suite, ti, report>>
    /\ UNCHANGED dashVars

\* Variant: a build without a report ends the loop (break for continue).
ParseTestsNextBuild_BreakOnError ==
    /\ pc = "ParseTestsLoop"
    /\ IF bi > Len(builds) \/ FetchTestsXml(builds[bi], junitXml).err
       THEN /\ history' = [history EXCEPT !.To = builds[1].finished.Timestamp,
                                          !.From = builds[Len(builds)].finished.Timestamp]
            /\ pc' = "Serialize"
            /\ UNCHANGED parseVars
       ELSE /\ suite' = FetchTestsXml(builds[bi], junitXml).TestCases
            /\ ti' = 1
            /\ pc' = "ParseTestCases"
            /\ UNCHANGED <<history, bi>>
    /\ UNCHANGED <<remoteVars, cacheVars, builds, listVars, report>>
    /\ UNCHANGED dashVars

\* Lines 268-274 and 300-303: the next build's report is fetched, a build
\* without one is skipped; after the last build the window is set.
ParseTestsNextBuild ==
    /\ pc = "ParseTestsLoop"
    /\ IF bi > Len(builds)
       THEN /\ history' = [history EXCEPT !.To = builds[1].finished.Timestamp,
                                          !.From = builds[Len(builds)].finished.Timestamp]
            /\ pc' = "Serialize"
            /\ UNCHANGED parseVars
       ELSE LET r == FetchTestsXml(builds[bi], junitXml)
            IN  IF r.err
                THEN /\ bi' = bi + 1
                     /\ UNCHANGED <<pc, history, suite, ti>>
                ELSE /\ suite' = r.TestCases
                     /\ ti' = 1
                     /\ pc' = "ParseTestCases"
                     /\ UNCHANGED <<history, bi>>
    /\ UNCHANGED <<remoteVars, cacheVars, builds, listVars, report>>
    /\ UNCHANGED dashVars

\* Variant: the end of a suite does not count the build.
ParseTestCase_NoBuildCount ==
    /\ pc = "ParseTestCases"
    /\ IF ti > Len(suite)
       THEN /\ bi' = bi + 1
            /\ pc' = "ParseTestsLoop"
            /\ UNCHANGED <<history, suite, ti>>
       ELSE /\ history' = ObserveTestCase(history, suite[ti])
            /\ ti' = ti + 1
            /\ UNCHANGED <<pc, bi, suite>>
    /\ UNCHANGED <<remoteVars, cacheVars, builds, listVars, report>>
    /\ UNCHANGED dashVars

\* Variant: TotalBuilds is counted per test case instead of per suite.
ParseTestCase_CountPerCase ==
    /\ pc = "ParseTestCases"
    /\ IF ti > Len(suite)
       THEN /\ bi' = bi + 1
            /\ pc' = "ParseTestsLoop"
            /\ UNCHANGED <<history, suite, ti>>
       ELSE /\ history' = [ObserveTestCase(history, suite[ti]) EXCEPT !.TotalBuilds = @ + 1]
            /\ ti' = ti + 1
            /\ UNCHANGED <<pc, bi, suite>>
    /\ UNCHANGED <<remoteVars, cacheVars, builds, listVars, report>>
    /\ UNCHANGED dashVars

\* Lines 276-297: one test case of the current suite, or the end of the suite.
ParseTestCase ==
    /\ pc = "ParseTestCases"
    /\ IF ti > Len(suite)
       THEN /\ history' = [history EXCEPT !.TotalBuilds = @ + 1]
            /\ bi' = bi + 1
            /\ pc' = "ParseTestsLoop"
            /\ UNCHANGED <<suite, ti>>
       ELSE /\ history' = ObserveTestCase(history, suite[ti])
            /\ ti' = ti + 1
            /\ UNCHANGED <<pc, bi, suite>>
    /\ UNCHANGED <<remoteVars, cacheVars, builds, listVars, report>>
    /\ UNCHANGED dashVars

\* ------------------------------------------------------------- report
\* flakiness = Flakes / TotalBuilds, kept as the pair of its terms.
Flakiness(h, k) == <<h.Data[k].Flakes, h.TotalBuilds>>
\* Variant: entries with Flakes = 0 are not left out.
FlakyNames_All(h) == DOMAIN h.Data
FlakyNames(h) == {k \in DOMAIN h.Data : h.Data[k].Flakes # 0}

\* The orders sort.Slice can leave: no entry is followed by a flakier one
\* (all entries share the divisor, so the quotients compare as the Flakes do).
Rankings(h) ==
    LET names == FlakyNames(h)
    IN  {s \in [1..Cardinality(names) -> names] :
            /\ \A i, j \in DOMAIN s : i # j => s[i] # s[j]
            /\ \A i, j \in DOMAIN s : i < j => h.Data[s[i]].Flakes >= h.Data[s[j]].Flakes}

ShowIntermittentFailures ==
    /\ pc = "Show"
    /\ \E s \in Rankings(history) :
          report' = [i \in DOMAIN s |-> [name |-> s[i], flakiness |-> Flakiness(history, s[i])]]
    /\ pc' = "Done"
    /\ UNCHANGED <<remoteVars, cacheVars, builds, history, listVars, parseVars>>
    /\ UNCHANGED dashVars

\* Variant: the next analysis reuses the Job of the previous one.
Restart_KeepHistory ==
    /\ pc = "Done"
    /\ pc' = "Deserialize"
    /\ builds' = <<>>
    /\ buildIds' = <<>>
    /\ numBuilds' = 0
    /\ n' = 0
    /\ bi' = 0
    /\ suite' = <<>>
    /\ ti' = 0
    /\ found' = FALSE
    /\ decodeErr' = FALSE
    /\ report' = <<>>
    /\ UNCHANGED <<remoteVars, cacheFile, saved, history>>
    /\ UNCHANGED dashVars

\* The program is invoked again in the same directory: a new Job, the same
\* remote store, the cache file as the previous invocation left it.
Restart ==
    /\ pc = "Done"
    /\ pc' = "Deserialize"
    /\ builds' = <<>>
    /\ history' = NewHistory
    /\ buildIds' = <<>>
    /\ numBuilds' = 0
    /\ n' = 0
    /\ bi' = 0
    /\ suite' = <<>>
    /\ ti' = 0
    /\ found' = FALSE
    /\ decodeErr' = FALSE
    /\ report' = <<>>
    /\ UNCHANGED <<remoteVars, cacheFile, saved>>
    /\ UNCHANGED dashVars

Next ==
    \/ Deserialize
    \/ ListBuildsFetch
    \/ ListBuildsIter
    \/ ParseTestsBegin
    \/ ParseTestsNextBuild
    \/ ParseTestCase
    \/ Serialize
    \/ ShowIntermittentFailures
    \/ Restart

Spec == Init /\ [][Next]_vars

\* ------------------------------------------------------------- dashboard
AnalyserOff ==
    /\ listing = ListingError
    /\ finishedJson = <<>>
    /\ junitXml = <<>>
    /\ windowSize = 0
    /\ cacheFile = NoFile
    /\ pc = "off"
    /\ builds = <<>>
    /\ history = NewHistory
    /\ buildIds = <<>>
    /\ numBuilds = 0
    /\ n = 0
    /\ bi = 0
    /\ suite = <<>>
    /\ ti = 0
    /\ found = FALSE
    /\ decodeErr = FALSE
    /\ saved = NewHistory
    /\ report = <<>>

\* main of the dashboard up to the event loop: NewState, the entries, Redraw.
InitDashboard ==
    /\ AnalyserOff
    /\ Entries \in EntryLists
    /\ Cursor = 1
    /\ LinkCursor = 0
    /\ rendered = Redraw(1, 0)
    /\ opened = NoLink
    /\ uiPc = "loop"

\* case "j", "<Down>"
KeyDown ==
    /\ uiPc = "loop"
    /\ \E id \in {"j", "<Down>"} :
          Cursor' = IF Cursor + 1 > Len(Entries) THEN Len(Entries) ELSE Cursor + 1
    /\ rendered' = Redraw(Cursor', LinkCursor)
    /\ UNCHANGED <<Entries, LinkCursor, opened, uiPc, analyserVars>>

\* Variant: the cursor is clamped one row too low.
KeyUp_ClampAtZero ==
    /\ uiPc = "loop"
    /\ \E id \in {"k", "<Up>"} :
          Cursor' = IF Cursor - 1 < 1 THEN 0 ELSE Cursor - 1
    /\ rendered' = Redraw(Cursor', LinkCursor)
    /\ UNCHANGED <<Entries, LinkCursor, opened, uiPc, analyserVars>>

\* case "k", "<Up>"
KeyUp ==
    /\ uiPc = "loop"
    /\ \E id \in {"k", "<Up>"} :
          Cursor' = IF Cursor - 1 < 2 THEN 1 ELSE Cursor - 1
    /\ rendered' = Redraw(Cursor', LinkCursor)
    /\ UNCHANGED <<Entries, LinkCursor, opened, uiPc, analyserVars>>

\* case "<Tab>"
KeyTab ==
    /\ uiPc = "loop"
    /\ LinkCursor' = IF LinkCursor + 1 > 2 THEN 0 ELSE LinkCursor + 1
    /\ rendered' = Redraw(Cursor, LinkCursor')
    /\ UNCHANGED <<Entries, Cursor, opened, uiPc, analyserVars>>

\* case "<Enter>": GetSelectedLink indexes Entries[Cursor-1] (a panic when out
\* of range); OpenLinkInBrowser starts the opener or ends the program with
\* log.Fatal (unsupported platform, opener not started).  No Redraw.
KeyEnter ==
    /\ uiPc = "loop"
    /\ IF Cursor \in 1..Len(Entries)
       THEN \E started \in BOOLEAN :
               IF started
               THEN opened' = GetSelectedLink(Entries, Cursor, LinkCursor) /\ UNCHANGED uiPc
               ELSE uiPc' = "fatal" /\ UNCHANGED opened
       ELSE uiPc' = "panic" /\ UNCHANGED opened
    /\ UNCHANGED <<Entries, Cursor, LinkCursor, rendered, analyserVars>>

\* case "q", "<C-c>"
KeyQuit ==
    /\ uiPc = "loop"
    /\ \E id \in {"q", "<C-c>"} : uiPc' = "exit"
    /\ UNCHANGED <<Entries, Cursor, LinkCursor, rendered, opened, analyserVars>>

\* Any other event (a resize, another key): no case of the switch matches.
KeyOther ==
    /\ uiPc = "loop"
    /\ UNCHANGED vars

NextDashboard ==
    \/ KeyDown
    \/ KeyUp
    \/ KeyTab
    \/ KeyEnter
    \/ KeyQuit
    \/ KeyOther

SpecDashboard == InitDashboard /\ [][NextDashboard]_vars

\* ------------------------------------------------------------- observations
\* The passed-states (no failure text) of the test cases named t, in suite order.
PassedStates(cases, t) ==
    LET idx == SelectSeq([i \in 1..Len(cases) |-> i], LAMBDA i : cases[i].Name = t)
    IN  [j \in 1..Len(idx) |-> cases[idx[j]].Failure = ""]

ReportOf(i) == junitXml[builds[i].id]

RECURSIVE Observed(_, _)
\* The passed-states of t in the decodable reports of builds[1..k], in order.
Observed(t, k) ==
    IF k = 0 THEN <<>>
    ELSE Observed(t, k - 1) \o
         (IF ReportOf(k).kind = "ok" THEN PassedStates(ReportOf(k).cases, t) ELSE <<>>)

\* Number of adjacent pairs of s that differ.
Differing(s) == Cardinality({i \in 1..(Len(s) - 1) : s[i] # s[i + 1]})

TrackedNames == TestNames \ ignoreTestCases
\* ParseTests has just returned to main.
ParseTestsReturned == pc = "Serialize"
InParseTests == pc \in {"ParseTests", "ParseTestsLoop", "ParseTestCases"}

\* The remote reports with every ignored test case removed.
WithoutIgnored(remote) ==
    [id \in DOMAIN remote |->
        IF remote[id].kind = "ok"
        THEN JunitOk(SelectSeq(remote[id].cases, LAMBDA tc : tc.Name \notin ignoreTestCases))
        ELSE remote[id]]

\* ------------------------------------------------------------- claims
\* C1: when ParseTests returns on a fresh Job, each non-ignored test's Flakes is
\* 0.5 times the number of differing adjacent pairs of the sequence: seed TRUE,
\* then the test's passed-states in the fetched suites in processing order
\* (Flakes is in units of 0.5, so it equals the count); a test without any
\* observation is not tracked.
C1_FlakesCountTransitions ==
    ParseTestsReturned =>
        \A t \in TrackedNames :
            LET obs == Observed(t, Len(builds))
            IN  IF t \in DOMAIN history.Data
                THEN history.Data[t].Flakes = Differing(<<TRUE>> \o obs)
                ELSE obs = <<>>

\* The example of the spec: newest-first [true,false,true,true,false] gives 1.5.
C1_Witness ==
    /\ ParseTestsReturned
    /\ Len(builds) = 5
    /\ Observed("T1", 5) = <<TRUE, FALSE, TRUE, TRUE, FALSE>>
    /\ history.Data["T1"].Flakes = 3
    /\ history.TotalBuilds = 5

\* C2 (as claimed): ListBuilds never makes an out-of-range access, whatever the
\* listing and the pattern of completion-record failures.
C2_ListBuildsNeverPanics == pc # "PanicListBuilds"

\* C3 (as claimed): Deserialize reports a cache only when the History was
\* decoded; after a decode error the run does not go on to render the history.
C3_LoadTrueOnlyWhenDecoded == found => ~decodeErr

\* C4 (as claimed): once Serialize has created the cache file, the next
\* invocation's Deserialize yields the History that was saved.
C4_RoundTrip == (pc = "Show" /\ found) => history = saved

\* C5: a build whose report cannot be fetched or decoded leaves the History
\* untouched and the loop moves on; when ParseTests returns, TotalBuilds is the
\* number of builds whose report was fetched and decoded.
C5_TotalBuildsCountsFetched ==
    ParseTestsReturned =>
        history.TotalBuilds =
            Cardinality({i \in 1..Len(builds) : ReportOf(i).kind = "ok"})

C5_SkippedBuildStep ==
    (pc = "ParseTestsLoop" /\ bi <= Len(builds) /\ ReportOf(bi).kind # "ok")
        => (history' = history /\ bi' = bi + 1 /\ pc' = "ParseTestsLoop")

\* C5: the final count as an invariant together with the skipping step.
C5_FailedFetchSkipsBuild == [](C5_TotalBuildsCountsFetched) /\ [][C5_SkippedBuildStep]_vars

C5_Witness ==
    /\ ParseTestsReturned
    /\ Len(builds) = 2
    /\ history.TotalBuilds = 1
    /\ ReportOf(1).kind = "notfetched"
    /\ "T1" \in DOMAIN history.Data

\* C6: no ignored name is ever a key of History.Data, and the History that
\* ParseTests returns is the one it returns for the same builds with every
\* ignored test case removed from the reports.
C6_IgnoredNeverAlterHistory ==
    /\ DOMAIN history.Data \cap ignoreTestCases = {}
    /\ ParseTestsReturned =>
          history = ParseTestsResult(builds, WithoutIgnored(junitXml), NewHistory)

C6_Witness ==
    /\ ParseTestsReturned
    /\ \E i \in 1..Len(builds) :
          /\ ReportOf(i).kind = "ok"
          /\ \E c \in Range(ReportOf(i).cases) : c.Name = IgnoredName /\ c.Failure # ""
    /\ "T1" \in DOMAIN history.Data

FlakesOf(h, t) == IF t \in DOMAIN h.Data THEN h.Data[t].Flakes ELSE 0
PreviousOf(h, t) == IF t \in DOMAIN h.Data THEN h.Data[t].PreviousState ELSE TRUE

C8_Step ==
    InParseTests =>
        /\ \A t \in TestNames : FlakesOf(history', t) >= FlakesOf(history, t)
        /\ (pc = "ParseTestCases" /\ ti <= Len(suite) /\ suite[ti].Name \notin ignoreTestCases) =>
              LET t == suite[ti].Name
              IN  FlakesOf(history', t) =
                      FlakesOf(history, t) +
                      (IF (suite[ti].Failure = "") # PreviousOf(history, t) THEN 1 ELSE 0)

\* C8: every step of the analysis pass satisfies C8_Step.
C8_FlakesOnlyGrowByHalf == [][C8_Step]_vars

C8_Witness ==
    /\ pc = "ParseTestCases"
    /\ bi = 2
    /\ ti = 2
    /\ FlakesOf(history, "T1") = 2
    /\ history.Data["T1"].PreviousState

\* C9 (as claimed): when ListBuilds returns, every selected build has a decoded
\* completion record, no candidate without one is selected, and at most
\* windowSize builds are selected.
C9_SelectsAtMostWindowSize ==
    (pc = "ParseTests" /\ listing.kind = "ok") =>
        /\ \A i \in 1..Len(builds) :
              /\ finishedJson[builds[i].id].kind = "ok"
              /\ builds[i].finished.Timestamp = finishedJson[builds[i].id].Timestamp
        /\ Len(builds) <= windowSize

\* C10: the candidates are sorted as strings and tried from the largest string
\* backward, so job.builds is strictly descending in string order; the ids
\* "9", "10", "11" sort to "10", "11", "9" and "9" is tried first.
Id9 == Digits(9)
Id10 == Digits(10)
Id11 == Digits(11)

C10_StringOrder ==
    /\ \A i, j \in 1..Len(builds) : i < j => StringLess(builds[j].id, builds[i].id)
    /\ pc = "ListBuildsLoop" =>
          /\ Range(buildIds) = Range(listing.ids) /\ Len(buildIds) = Len(listing.ids)
          /\ \A i, j \in 1..Len(buildIds) : i < j => StringLess(buildIds[i], buildIds[j])
          /\ \A i \in 1..Len(builds) : \E k \in (n + 2)..Len(buildIds) : builds[i].id = buildIds[k]
          /\ Range(listing.ids) = {Id9, Id10, Id11} =>
                /\ buildIds = <<Id10, Id11, Id9>>
                /\ (builds = <<>> /\ n = 2) => buildIds[n + 1] = Id9
    /\ (Range(listing.ids) = {Id9, Id10, Id11} /\ builds # <<>> /\ finishedJson[Id9].kind = "ok")
          => builds[1].id = Id9

C10_Witness ==
    /\ pc = "ParseTests"
    /\ listing.ids = <<Id9, Id10, Id11>>
    /\ Len(builds) = 3
    /\ builds[1].id = Id9 /\ builds[2].id = Id11 /\ builds[3].id = Id10

\* The entries printed for the ranking s of the history h.
Render(h, s) == [i \in DOMAIN s |-> [name |-> s[i], flakiness |-> Flakiness(h, s[i])]]
\* What decoding the cache file into a fresh Job leaves in job.history.
LoadedHistory ==
    IF cacheFile.size = 0 THEN NewHistory ELSE GobDecode(cacheFile.blob, NewHistory)
\* The candidates ListBuilds has tried when it returns (n is the last index).
TriedIds == {buildIds[k] : k \in (n + 1)..Len(buildIds)}

\* C11: in a run where Deserialize returned true, main is only ever at the
\* report: nothing was listed, fetched or analysed, the cache file is not
\* written, and the report is a rendering of the loaded History alone.
C11_HitState ==
    found =>
        /\ pc \in {"Show", "Done"}
        /\ builds = <<>> /\ buildIds = <<>> /\ bi = 0
        /\ history = LoadedHistory
        /\ pc = "Done" => \E s \in Rankings(LoadedHistory) : report = Render(LoadedHistory, s)

C11_HitStep == found => (cacheFile' = cacheFile /\ saved' = saved /\ history' \in {history, NewHistory})

\* C11: the state invariant of a cache hit together with its steps.
C11_CacheHitShortCircuits == [](C11_HitState) /\ [][C11_HitStep]_vars

C11_Witness ==
    /\ pc = "Done"
    /\ found
    /\ ~decodeErr
    /\ history.TotalBuilds = 2
    /\ Len(report) = 1

\* C12 (as claimed): when ParseTests returns, To is the completion timestamp of
\* the first build of the list and From that of the last, From <= To, and both
\* builds were analysed.
C12_WindowOldestNewest ==
    ParseTestsReturned =>
        /\ history.To = builds[1].finished.Timestamp
        /\ history.From = builds[Len(builds)].finished.Timestamp
        /\ history.From <= history.To
        /\ ReportOf(1).kind = "ok"
        /\ ReportOf(Len(builds)).kind = "ok"

\* C13 (as claimed): a History written to the cache comes from a pass that left
\* no build unanalysed.
C13_NoUnanalysedPersisted ==
    (pc = "Show" /\ ~found /\ cacheFile.exists /\ cacheFile.size > 0) =>
        \A i \in 1..Len(builds) : ReportOf(i).kind = "ok"

\* C13 (amended): Serialize is reached only on a cache miss after ParseTests
\* went through every selected build and set the window; the listing was
\* fetched and at least one build selected; the cache file changes only in
\* Serialize.  Builds skipped for lack of a report do not prevent it.
C13_SerializeState ==
    ParseTestsReturned =>
        /\ ~found
        /\ listing.kind = "ok"
        /\ builds # <<>>
        /\ bi = Len(builds) + 1
        /\ history.To = builds[1].finished.Timestamp

C13_SerializeStep ==
    cacheFile' # cacheFile => (pc = "Serialize" /\ cacheFile' = BufioWrite(GobEncode(history)))

\* C13 (amended): Serialize is reached only after ParseTests returned without
\* error, and the cache file changes only in Serialize.
C13_PersistOnlyAfterParseTests == [](C13_SerializeState) /\ [][C13_SerializeStep]_vars

C13_Witness ==
    /\ pc = "Show"
    /\ ~found
    /\ cacheFile.exists
    /\ cacheFile.size > 0
    /\ \E i \in 1..Len(builds) : ReportOf(i).kind # "ok"

C14_Step ==
    /\ (pc = "ListBuildsLoop" /\ n >= 0 /\ finishedJson[buildIds[n + 1]].kind = "malformed")
          => (builds' = builds /\ history' = history /\ pc' \in {"ListBuildsLoop", "ParseTests"})
    /\ (pc = "ParseTestsLoop" /\ bi <= Len(builds) /\ ReportOf(bi).kind = "malformed")
          => (history' = history /\ bi' = bi + 1 /\ pc' = "ParseTestsLoop")

RECURSIVE ObservedIn(_, _)
\* The passed-states of t in the decodable reports of the build list bs.
ObservedIn(bs, t) ==
    IF bs = <<>> THEN <<>>
    ELSE (IF junitXml[Head(bs).id].kind = "ok"
          THEN PassedStates(junitXml[Head(bs).id].cases, t) ELSE <<>>) \o ObservedIn(Tail(bs), t)

\* The contribution of the synthetic seed pair (TRUE, first observation).
SeedPair(obs) == IF obs # <<>> /\ ~obs[1] THEN 1 ELSE 0
\* job.builds oldest-first, and what ParseTests returns for it on a fresh Job.
ReversedBuilds == [i \in 1..Len(builds) |-> builds[Len(builds) + 1 - i]]
ReversedHistory == ParseTestsResult(ReversedBuilds, junitXml, NewHistory)
\* No decodable report names a test twice.
UniqueNames ==
    \A i \in 1..Len(builds) : \A t \in TestNames :
        ReportOf(i).kind = "ok" => Len(PassedStates(ReportOf(i).cases, t)) <= 1

ReversalAgrees ==
    \A t \in TrackedNames :
        LET fwd == FlakesOf(history, t)
            rev == FlakesOf(ReversedHistory, t)
        IN  /\ fwd - SeedPair(ObservedIn(builds, t)) = rev - SeedPair(ObservedIn(ReversedBuilds, t))
            /\ fwd - rev \in {-1, 0, 1}

\* C15 (as claimed): for every build list, the transitions counted apart from
\* the seed pair are the same newest-first and oldest-first, and the two
\* Flakes differ by at most 0.5.
C15_ReversalInvariant == ParseTestsReturned => ReversalAgrees

\* C15 (amended): the same, for build lists whose reports name no test twice.
C15_ReversalInvariantUniqueNames == (ParseTestsReturned /\ UniqueNames) => ReversalAgrees

C15_Witness ==
    /\ ParseTestsReturned
    /\ UniqueNames
    /\ FlakesOf(history, "T1") = 3
    /\ FlakesOf(ReversedHistory, "T1") = 4

C17_ReportListsFlakyTests ==
    pc = "Done" =>
        /\ {report[i].name : i \in DOMAIN report} = {k \in DOMAIN history.Data : history.Data[k].Flakes > 0}
        /\ \A i, j \in DOMAIN report : i # j => report[i].name # report[j].name
        /\ \A i \in DOMAIN report :
              report[i].flakiness = <<history.Data[report[i].name].Flakes, history.TotalBuilds>>
        /\ \A i, j \in DOMAIN report :
              i < j => report[i].flakiness[1] * report[j].flakiness[2]
                          >= report[j].flakiness[1] * report[i].flakiness[2]

C17_Witness ==
    /\ pc = "Done"
    /\ Len(report) = 2
    /\ report[1].flakiness[1] > report[2].flakiness[1]
    /\ history.TotalBuilds = 3

\* C18 (as claimed): every rendering of the History of this run is the report
\* that was printed.
C18_ReportReproducible ==
    pc = "Done" => \A s \in Rankings(history) : report = Render(history, s)

\* C19: observing a non-ignored test case leaves PreviousState true exactly
\* when it has no failure text; a skipped one without failure adds nothing
\* after a pass (or as first observation) and 0.5 after a failure.
C19_Step ==
    (pc = "ParseTestCases" /\ ti <= Len(suite) /\ suite[ti].Name \notin ignoreTestCases) =>
        LET tc == suite[ti]
        IN  /\ history'.Data[tc.Name].PreviousState = (tc.Failure = "")
            /\ (tc.Skipped # "" /\ tc.Failure = "") =>
                  FlakesOf(history', tc.Name) =
                      FlakesOf(history, tc.Name) + (IF PreviousOf(history, tc.Name) THEN 0 ELSE 1)

\* C19: every step of the analysis pass satisfies C19_Step.
C19_SkippedCountsAsPassed == [][C19_Step]_vars

C19_Witness ==
    /\ pc = "ParseTestCases"
    /\ bi = 2
    /\ ti = 2
    /\ suite[1] = TestCase("T1", "skipped", "")
    /\ FlakesOf(history, "T1") = 2
    /\ history.Data["T1"].PreviousState

\* C20 (as claimed): on a cache miss ParseTests only runs with a non-empty
\* job.builds, so its reads of the first and last build are in range.
C20_ParseTestsHasBuilds ==
    /\ pc = "ParseTests" => builds # <<>>
    /\ pc # "PanicParseTests"

\* ------------------------------------------------------------- bounds of the score
\* The suites counted so far, the one being processed included.
SuitesSoFar == history.TotalBuilds + (IF pc = "ParseTestCases" THEN 1 ELSE 0)
\* main has run the analysis pass in this invocation (no cache hit).
AnalysedThisRun == pc = "Done" /\ ~found

\* C21: with names unique within each suite, at every point of ParseTests each
\* test has Flakes <= 0.5 * (suites processed so far, the current one included),
\* and every flakiness reported after the pass lies in (0, 0.5].  Flakes is in
\* units of 0.5, so the bound reads Flakes <= TotalBuilds.
C21_FlakesAtMostHalfPerBuild ==
    UniqueNames =>
        /\ (InParseTests \/ ParseTestsReturned) =>
              \A t \in TrackedNames : FlakesOf(history, t) <= SuitesSoFar
        /\ AnalysedThisRun =>
              \A i \in DOMAIN report :
                  /\ 0 < report[i].flakiness[1]
                  /\ report[i].flakiness[1] <= report[i].flakiness[2]

C21_Witness ==
    /\ AnalysedThisRun
    /\ UniqueNames
    /\ Len(report) = 1
    /\ report[1].flakiness = <<3, 3>>

\* C22: after the analysis pass TotalBuilds <= len(job.builds), a test with
\* Flakes > 0 implies TotalBuilds >= 1, and every reported entry has a
\* non-zero divisor.
C22_TotalBuildsBounds ==
    (ParseTestsReturned \/ AnalysedThisRun) =>
        /\ history.TotalBuilds <= Len(builds)
        /\ \A t \in DOMAIN history.Data : history.Data[t].Flakes > 0 => history.TotalBuilds >= 1
        /\ \A i \in DOMAIN report : report[i].flakiness[2] >= 1

C22_Witness ==
    /\ AnalysedThisRun
    /\ Len(builds) = 2
    /\ history.TotalBuilds = 1
    /\ Len(report) = 1
    /\ report[1].flakiness = <<1, 1>>

\* ------------------------------------------------------------- frame of one build
\* job.history when the processing of the current build began.
HistoryAtBuildStart == FoldBuilds(NewHistory, SubSeq(builds, 1, bi - 1), junitXml)
\* The non-ignored tests named by the test cases of the current suite seen so far.
NamedSoFar == {suite[k].Name : k \in 1..(ti - 1)} \ ignoreTestCases
SameEntry(h1, h2, t) ==
    /\ t \in DOMAIN h1.Data <=> t \in DOMAIN h2.Data
    /\ t \in DOMAIN h1.Data => h1.Data[t] = h2.Data[t]

\* C23 (state part): while a build is processed, From, To and TotalBuilds and the
\* entry of every test not named so far by its suite are as they were when the
\* build began.
C23_BuildFrame ==
    pc = "ParseTestCases" =>
        /\ history.TotalBuilds = HistoryAtBuildStart.TotalBuilds
        /\ history.From = HistoryAtBuildStart.From
        /\ history.To = HistoryAtBuildStart.To
        /\ \A t \in TestNames \ NamedSoFar : SameEntry(history, HistoryAtBuildStart, t)

\* C23 (step part): one test case changes at most the entry of its own test, an
\* ignored one changes nothing, and the end of the suite changes only TotalBuilds.
C23_Step ==
    pc = "ParseTestCases" =>
        IF ti <= Len(suite)
        THEN /\ \A t \in TestNames \ {suite[ti].Name} : SameEntry(history', history, t)
             /\ suite[ti].Name \in ignoreTestCases => history' = history
             /\ history'.TotalBuilds = history.TotalBuilds
        ELSE history' = [history EXCEPT !.TotalBuilds = @ + 1]

\* C23: processing one build changes only TotalBuilds and the entries of the
\* non-ignored tests its suite names; the entry of an absent test is unchanged.
C23_BuildChangesOnlyItsTests == [](C23_BuildFrame) /\ [][C23_Step]_vars

C23_Witness ==
    /\ pc = "ParseTestCases"
    /\ bi = 3
    /\ ti > Len(suite)
    /\ "T2" \notin NamedSoFar
    /\ "T1" \in NamedSoFar
    /\ "T2" \in DOMAIN history.Data
    /\ history.Data["T2"] = [PreviousState |-> FALSE, Flakes |-> 1]
    /\ FlakesOf(history, "T1") = 2

\* ------------------------------------------------------------- dashboard cursor
C24_CursorInRange ==
    /\ uiPc # "panic"
    /\ uiPc \in {"loop", "exit", "fatal"} =>
          /\ 1 <= Cursor /\ Cursor <= Len(Entries)
          /\ 0 <= LinkCursor /\ LinkCursor <= 2
          /\ opened \in {NoLink} \cup {e[f] : e \in {Entries[i] : i \in DOMAIN Entries},
                                              f \in {"Dashboard", "Artifacts", "Sippy"}}

C24_Step ==
    /\ (KeyDown \/ KeyUp) => LinkCursor' = LinkCursor
    /\ KeyTab => (Cursor' = Cursor /\ LinkCursor' = (LinkCursor + 1) % 3)
    /\ KeyEnter => (Cursor' = Cursor /\ LinkCursor' = LinkCursor)

\* C24: with a non-empty Entries list, after any sequence of key events
\* 1 <= Cursor <= len(Entries) and 0 <= LinkCursor <= 2, GetSelectedLink indexes
\* an existing entry and returns one of its links; Up/Down leave LinkCursor,
\* Tab leaves Cursor and cycles LinkCursor 0,1,2,0, Enter changes neither.
C24_CursorsStayInRange == [](C24_CursorInRange) /\ [][C24_Step]_vars

C24_Witness ==
    /\ uiPc = "loop"
    /\ Len(Entries) = 2
    /\ opened = Entries[2].Sippy
    /\ Cursor = 1
    /\ LinkCursor = 0

====
